---- MODULE Spec2Model ----
(***************************************************************************)
(* ChatStatistics (src/src/chat_statistics/stats.py): the question/reply   *)
(* counter get_top_users, the word-cloud text builder generate_word_cloud, *)
(* and the text helpers they use.                                          *)
(*                                                                         *)
(* A Python str is a sequence of one-character strings.  Characters that   *)
(* are not ASCII are written by their code point: "U+061F" is the Arabic   *)
(* question mark, "U+0643" the Arabic letter kaf and "U+06A9" the Persian  *)
(* letter keheh that hazm's Normalizer rewrites it to.                     *)
(***************************************************************************)
EXTENDS Integers, Sequences, FiniteSets, TLC

VARIABLES loaded, chat_data, stop_words, ret

vars == <<loaded, chat_data, stop_words, ret>>

ArabicQM == "U+061F"
ArabicKaf == "U+0643"
PersianKaf == "U+06A9"

(***************************************************************************)
(* Bounds of the model.                                                    *)
(***************************************************************************)
MaxMsgs == 2
TopMaxMsgs == 3
MaxTopN == 2
MaxLen == 4
MaxSegs == 2

(***************************************************************************)
(* Generic helpers on sequences.                                           *)
(***************************************************************************)
Min(a, b) == IF a < b THEN a ELSE b

Range(s) == {s[i] : i \in 1..Len(s)}

Contains(c, s) == \E i \in 1..Len(s) : s[i] = c

\* All sequences over S of length at most n.
SeqsUpTo(S, n) == UNION {[1..k -> S] : k \in 0..n}

(***************************************************************************)
(* Python str.strip(): drop leading and trailing whitespace.               *)
(***************************************************************************)
Whitespace == {" ", "\n"}

RECURSIVE LStrip(_)
LStrip(s) ==
    IF s # <<>> /\ Head(s) \in Whitespace THEN LStrip(Tail(s)) ELSE s

RECURSIVE RStrip(_)
RStrip(s) ==
    IF s # <<>> /\ s[Len(s)] \in Whitespace
    THEN RStrip(SubSeq(s, 1, Len(s) - 1))
    ELSE s

Strip(s) == RStrip(LStrip(s))

\* str.replace('\n', ' ')
ReplaceNewline(s) == [i \in 1..Len(s) |-> IF s[i] = "\n" THEN " " ELSE s[i]]

(***************************************************************************)
(* hazm.sent_tokenize: the pattern ([!.?U+061F]+)[ \n]+ is replaced by the *)
(* punctuation run followed by "\n\n", the text is split at "\n\n", and    *)
(* every piece that is not blank is kept with its newlines turned into     *)
(* spaces and stripped.                                                    *)
(***************************************************************************)
SentencePunct == {"!", ".", "?", ArabicQM}

\* First index at or after i that holds no whitespace (Len(t) + 1 if none).
RECURSIVE EndOfWhitespace(_, _)
EndOfWhitespace(t, i) ==
    IF i <= Len(t) /\ t[i] \in Whitespace THEN EndOfWhitespace(t, i + 1) ELSE i

RECURSIVE SentSub(_, _)
SentSub(t, i) ==
    IF i > Len(t) THEN <<>>
    ELSE IF t[i] \in Whitespace /\ i > 1 /\ t[i - 1] \in SentencePunct
         THEN <<"\n", "\n">> \o SentSub(t, EndOfWhitespace(t, i))
         ELSE <<t[i]>> \o SentSub(t, i + 1)

\* str.split('\n\n')
RECURSIVE SplitParagraphs(_, _, _)
SplitParagraphs(t, i, cur) ==
    IF i > Len(t) THEN <<cur>>
    ELSE IF i < Len(t) /\ t[i] = "\n" /\ t[i + 1] = "\n"
         THEN <<cur>> \o SplitParagraphs(t, i + 2, <<>>)
         ELSE SplitParagraphs(t, i + 1, Append(cur, t[i]))

sent_tokenize(text) ==
    LET pieces == SplitParagraphs(SentSub(text, 1), 1, <<>>)
        kept == SelectSeq(pieces, LAMBDA p : Strip(p) # <<>>)
    IN  [i \in 1..Len(kept) |-> Strip(ReplaceNewline(kept[i]))]

(***************************************************************************)
(* hazm.word_tokenize: newlines become spaces, every run of question and   *)
(* exclamation marks and every single separator is padded with spaces,     *)
(* and the text is split at spaces, empty pieces dropped.  (The joining of  *)
(* Persian verb parts does not arise for the words of this model.)         *)
(***************************************************************************)
WordPunctRun == {"?", "!", ArabicQM}

WordPunctSingle == {"."}

RECURSIVE EndOfRun(_, _)
EndOfRun(t, i) ==
    IF i <= Len(t) /\ t[i] \in WordPunctRun THEN EndOfRun(t, i + 1) ELSE i

RECURSIVE WordPad(_, _)
WordPad(t, i) ==
    IF i > Len(t) THEN <<>>
    ELSE IF t[i] \in WordPunctRun
         THEN LET j == EndOfRun(t, i)
              IN  <<" ">> \o SubSeq(t, i, j - 1) \o <<" ">> \o WordPad(t, j)
         ELSE IF t[i] \in WordPunctSingle
              THEN <<" ", t[i], " ">> \o WordPad(t, i + 1)
              ELSE <<t[i]>> \o WordPad(t, i + 1)

\* [word for word in text.split(' ') if word]
RECURSIVE SplitSpaces(_, _, _)
SplitSpaces(t, i, cur) ==
    IF i > Len(t) THEN (IF cur = <<>> THEN <<>> ELSE <<cur>>)
    ELSE IF t[i] = " "
         THEN (IF cur = <<>> THEN <<>> ELSE <<cur>>) \o SplitSpaces(t, i + 1, <<>>)
         ELSE SplitSpaces(t, i + 1, Append(cur, t[i]))

word_tokenize(text) == SplitSpaces(WordPad(ReplaceNewline(text), 1), 1, <<>>)

(***************************************************************************)
(* hazm.Normalizer.normalize, its character refinement: the Arabic kaf is  *)
(* rewritten to the Persian keheh, every other character is kept.          *)
(***************************************************************************)
normalize(s) == [i \in 1..Len(s) |-> IF s[i] = ArabicKaf THEN PersianKaf ELSE s[i]]

\* ' '.join(tokens)
RECURSIVE JoinSpace(_)
JoinSpace(tokens) ==
    IF tokens = <<>> THEN <<>>
    ELSE IF Len(tokens) = 1 THEN tokens[1]
         ELSE tokens[1] \o <<" ">> \o JoinSpace(Tail(tokens))

(***************************************************************************)
(* Values of the export.  A text is a str or a list of segments; a segment *)
(* is a str or a dict that may carry a 'text' key.                         *)
(***************************************************************************)
StrText(s) == [isstr |-> TRUE, val |-> s, segs |-> <<>>]

ListText(segs) == [isstr |-> FALSE, val |-> <<>>, segs |-> segs]

StrSeg(s) == [isstr |-> TRUE, val |-> s, has_text |-> FALSE, text |-> <<>>]

DictSeg(s) == [isstr |-> FALSE, val |-> <<>>, has_text |-> TRUE, text |-> s]

OtherSeg == [isstr |-> FALSE, val |-> <<>>, has_text |-> FALSE, text |-> <<>>]

Message(id, text, from, has_reply, reply) ==
    [id |-> id, text |-> text, from |-> from,
     has_reply |-> has_reply, reply_to_message_id |-> reply]

\* rebuild_msg without the elif branch: only the str segments are kept.
RECURSIVE rebuild_strings_only(_, _, _)
rebuild_strings_only(sub_messages, i, msg_text) ==
    IF i > Len(sub_messages) THEN msg_text
    ELSE rebuild_strings_only(sub_messages, i + 1,
             IF sub_messages[i].isstr THEN msg_text \o sub_messages[i].val
             ELSE msg_text)

(***************************************************************************)
(* ChatStatistics.rebuild_msg                                              *)
(***************************************************************************)
RECURSIVE rebuild_loop(_, _, _)
rebuild_loop(sub_messages, i, msg_text) ==
    IF i > Len(sub_messages) THEN msg_text
    ELSE LET sub_msg == sub_messages[i]
         IN  rebuild_loop(sub_messages, i + 1,
                 IF sub_msg.isstr THEN msg_text \o sub_msg.val
                 ELSE IF sub_msg.has_text THEN msg_text \o sub_msg.text
                      ELSE msg_text)

rebuild_msg(sub_messages) == rebuild_loop(sub_messages, 1, <<>>)

(***************************************************************************)
(* ChatStatistics.__init__: the stopword file is read line by line, every  *)
(* line is stripped and normalized, and the results are kept as a set.     *)
(***************************************************************************)
load_stop_words(lines) == {normalize(Strip(lines[i])) : i \in 1..Len(lines)}

(***************************************************************************)
(* get_top_users, first pass: flatten every text that is not a str, in     *)
(* place, and set is_question[id] for every message one of whose sentences *)
(* holds a question mark.  is_question is a defaultdict(bool): a function  *)
(* on the keys it holds so far.                                            *)
(***************************************************************************)
\* The flattened text is computed but not stored in the message.
flatten_not_stored(msg) == msg

flatten(msg) ==
    IF ~msg.text.isstr
    THEN [msg EXCEPT !.text = StrText(rebuild_msg(msg.text.segs))]
    ELSE msg

\* The test for "?" alone.
sentence_has_ascii_mark(sentence) == Contains("?", sentence)

sentence_has_mark(sentence) ==
    ~((~Contains("?", sentence)) /\ (~Contains(ArabicQM, sentence)))

any_question(sentences) ==
    \E i \in 1..Len(sentences) : sentence_has_mark(sentences[i])

RECURSIVE question_pass(_, _, _)
question_pass(messages, i, is_question) ==
    IF i > Len(messages) THEN [messages |-> messages, is_question |-> is_question]
    ELSE LET msg == flatten(messages[i])
             sentences == sent_tokenize(msg.text.val)
         IN  question_pass([messages EXCEPT ![i] = msg], i + 1,
                 IF any_question(sentences)
                 THEN (msg.id :> TRUE) @@ is_question
                 ELSE is_question)

(***************************************************************************)
(* ChatStatistics.msg_has_question: flattens the message in place; value   *)
(* is TRUE for the return value True and FALSE for None.                   *)
(***************************************************************************)
msg_has_question(msg) ==
    LET m == flatten(msg)
    IN  [msg |-> m, value |-> any_question(sent_tokenize(m.text.val))]

\* A plain dict in place of the defaultdict: a missing key raises KeyError.
dict_get(d, k) ==
    IF k \in DOMAIN d
    THEN [raised |-> FALSE, value |-> d[k], dict |-> d]
    ELSE [raised |-> TRUE, value |-> FALSE, dict |-> d]

(***************************************************************************)
(* defaultdict(bool).__getitem__: a missing key is inserted with False.    *)
(***************************************************************************)
defaultdict_get(d, k) ==
    IF k \in DOMAIN d
    THEN [raised |-> FALSE, value |-> d[k], dict |-> d]
    ELSE [raised |-> FALSE, value |-> FALSE, dict |-> (k :> FALSE) @@ d]

\* not msg.get('reply_to_message_id'): the key is absent (None) or its value is 0.
no_reply(msg) == ~msg.has_reply \/ msg.reply_to_message_id = 0

(***************************************************************************)
(* get_top_users, second pass: users collects msg['from'] of every message *)
(* that passes both tests; counted records the positions of those messages.*)
(***************************************************************************)
RECURSIVE reply_pass(_, _, _, _, _)
reply_pass(messages, i, is_question, users, counted) ==
    IF i > Len(messages)
    THEN [raised |-> FALSE, users |-> users, counted |-> counted]
    ELSE LET msg == messages[i] IN
         IF no_reply(msg)
         THEN reply_pass(messages, i + 1, is_question, users, counted)
         ELSE LET got == defaultdict_get(is_question, msg.reply_to_message_id) IN
              IF got.raised
              THEN [raised |-> TRUE, users |-> users, counted |-> counted]
              ELSE IF got.value = FALSE
                   THEN reply_pass(messages, i + 1, got.dict, users, counted)
                   ELSE reply_pass(messages, i + 1, got.dict,
                                   Append(users, msg.from), Append(counted, i))

(***************************************************************************)
(* collections.Counter(users): the counts in order of first occurrence,    *)
(* as a sequence of <<element, count>>.                                    *)
(***************************************************************************)
RECURSIVE Counter(_)
Counter(users) ==
    IF users = <<>> THEN <<>>
    ELSE LET rest == Counter(SubSeq(users, 1, Len(users) - 1))
             u == users[Len(users)]
         IN  IF \E j \in 1..Len(rest) : rest[j][1] = u
             THEN [j \in 1..Len(rest) |->
                      IF rest[j][1] = u THEN <<u, rest[j][2] + 1>> ELSE rest[j]]
             ELSE Append(rest, <<u, 1>>)

(***************************************************************************)
(* Counter.most_common(n) = heapq.nlargest(n, items, key=count): the items *)
(* sorted by descending count, items of equal count in their order in the  *)
(* Counter, cut to the first n.                                            *)
(***************************************************************************)
\* Insert e behind every item whose count is at least e's.
insert_desc(sorted, e) ==
    LET before == {j \in 1..Len(sorted) : sorted[j][2] >= e[2]}
        k == Cardinality(before)
    IN  SubSeq(sorted, 1, k) \o <<e>> \o SubSeq(sorted, k + 1, Len(sorted))

RECURSIVE sorted_desc(_)
sorted_desc(items) ==
    IF items = <<>> THEN <<>>
    ELSE insert_desc(sorted_desc(SubSeq(items, 1, Len(items) - 1)), items[Len(items)])

\* most_common without the sort: the first n items in Counter order.
first_n(counts, n) == SubSeq(counts, 1, Min(n, Len(counts)))

most_common(counts, n) ==
    IF n <= 0 THEN <<>>
    ELSE SubSeq(sorted_desc(counts), 1, Min(n, Len(counts)))

\* get_top_users in one pass: a reply is tested against the questions seen
\* so far.
RECURSIVE single_pass(_, _, _, _, _)
single_pass(messages, i, is_question, users, counted) ==
    IF i > Len(messages)
    THEN [messages |-> messages, is_question |-> is_question,
          users |-> users, counted |-> counted]
    ELSE LET msg == flatten(messages[i])
             seen == IF any_question(sent_tokenize(msg.text.val))
                     THEN (msg.id :> TRUE) @@ is_question
                     ELSE is_question
             got == defaultdict_get(seen, msg.reply_to_message_id)
             vote == ~no_reply(msg) /\ got.value
         IN  single_pass([messages EXCEPT ![i] = msg], i + 1, seen,
                         IF vote THEN Append(users, msg.from) ELSE users,
                         IF vote THEN Append(counted, i) ELSE counted)

get_top_users_single_pass(messages, top_n) ==
    LET p == single_pass(messages, 1, <<>>, <<>>, <<>>)
    IN  [messages |-> p.messages,
         is_question |-> p.is_question,
         raised |-> FALSE,
         users |-> p.users,
         counted |-> p.counted,
         result |-> most_common(Counter(p.users), top_n)]

(***************************************************************************)
(* ChatStatistics.get_top_users                                            *)
(***************************************************************************)
get_top_users(messages, top_n) ==
    LET p1 == question_pass(messages, 1, <<>>)
        p2 == reply_pass(p1.messages, 1, p1.is_question, <<>>, <<>>)
    IN  [messages |-> p1.messages,
         is_question |-> p1.is_question,
         raised |-> p2.raised,
         users |-> p2.users,
         counted |-> p2.counted,
         result |-> IF p2.raised THEN <<>> ELSE most_common(Counter(p2.users), top_n)]

(***************************************************************************)
(* ChatStatistics.generate_word_cloud: the text accumulated over the       *)
(* messages, and the normalized text passed on to reshaping and rendering. *)
(***************************************************************************)
\* The accumulation with a space behind every message's tokens.
RECURSIVE cloud_loop_spaced(_, _, _, _)
cloud_loop_spaced(messages, stops, i, text_content) ==
    IF i > Len(messages) THEN text_content
    ELSE LET msg == messages[i] IN
         IF msg.text.isstr
         THEN LET tokens == word_tokenize(msg.text.val)
                  kept == SelectSeq(tokens, LAMBDA item : item \notin stops)
              IN  cloud_loop_spaced(messages, stops, i + 1,
                                    text_content \o JoinSpace(kept) \o <<" ">>)
         ELSE cloud_loop_spaced(messages, stops, i + 1, text_content)

RECURSIVE cloud_loop(_, _, _, _)
cloud_loop(messages, stops, i, text_content) ==
    IF i > Len(messages) THEN text_content
    ELSE LET msg == messages[i] IN
         IF msg.text.isstr
         THEN LET tokens == word_tokenize(msg.text.val)
                  kept == SelectSeq(tokens, LAMBDA item : item \notin stops)
              IN  cloud_loop(messages, stops, i + 1, text_content \o JoinSpace(kept))
         ELSE cloud_loop(messages, stops, i + 1, text_content)

generate_word_cloud(messages, stops) ==
    LET text_content == cloud_loop(messages, stops, 1, <<>>)
    IN  [text_content |-> text_content, normalized |-> normalize(text_content)]

(***************************************************************************)
(* The state: loaded is the export as the JSON file holds it, chat_data    *)
(* the export in memory, stop_words the stopword set, ret what the last    *)
(* call computed and returned.                                             *)
(***************************************************************************)
NoRet ==
    [op |-> "none", top_n |-> 0, raised |-> FALSE, is_question |-> <<>>,
     users |-> <<>>, counted |-> <<>>, result |-> <<>>,
     text_content |-> <<>>, normalized |-> <<>>, index |-> 0, value |-> FALSE]

NoReply == [has |-> FALSE, id |-> 0]

ReplyTo(S) == {NoReply} \cup {[has |-> TRUE, id |-> r] : r \in S}

\* The messages of an export: consecutive ids from first, the rest as chosen.
MessagesOf(first, c) ==
    [i \in 1..Len(c) |->
        Message(first + i - 1, c[i].text, c[i].from, c[i].reply.has, c[i].reply.id)]

\* After __init__, for any export of at most n messages.
InitWith(n, firstIds, texts, froms, replies, lines) ==
    /\ \E k \in 0..n, first \in firstIds :
          \E c \in [1..k -> [text : texts, from : froms, reply : replies]] :
              loaded = MessagesOf(first, c)
    /\ chat_data = loaded
    /\ stop_words = load_stop_words(lines)
    /\ ret = NoRet

Senders == {"A", "B"}

StopFile == <<<<ArabicKaf, "\n">>, <<"a", "a", "\n">>>>

\* Texts of a chat: plain and segmented, with and without a question mark.
ChatTexts ==
    {StrText(<<PersianKaf, " ", "a">>),
     StrText(<<ArabicKaf, "?">>),
     ListText(<<StrSeg(<<"a">>), DictSeg(<<ArabicQM>>)>>),
     ListText(<<OtherSeg, StrSeg(<<"a", " ">>)>>)}

\* Chats of at most MaxMsgs messages, the first with id 0 or 1.
Init == InitWith(MaxMsgs, {0, 1}, ChatTexts, Senders, ReplyTo({0}), StopFile)

\* Chats of plain texts by two senders, of at most TopMaxMsgs messages.
TopTexts == {StrText(<<"a", "?">>), StrText(<<"a", ".">>)}

InitTop == InitWith(TopMaxMsgs, {0}, TopTexts, Senders, ReplyTo({1, 2}), StopFile)

\* One message whose text is any str of at most MaxLen characters or any
\* list of at most MaxSegs segments.
TextAlphabet == {ArabicKaf, PersianKaf, "?", ArabicQM, ".", " ", "\n"}

SegmentStrings == {<<>>, <<"a">>, <<"?">>, <<" ">>}

Segments ==
    {StrSeg(s) : s \in SegmentStrings} \cup {DictSeg(s) : s \in SegmentStrings}
        \cup {OtherSeg}

AllTexts ==
    {StrText(s) : s \in SeqsUpTo(TextAlphabet, MaxLen)}
        \cup {ListText(l) : l \in SeqsUpTo(Segments, MaxSegs)}

InitText ==
    /\ \E t \in AllTexts : loaded = <<Message(1, t, "A", FALSE, 0)>>
    /\ chat_data = loaded
    /\ stop_words = load_stop_words(StopFile)
    /\ ret = NoRet

GetTopUsers(top_n) ==
    \E r \in {get_top_users(chat_data, top_n)} :
    /\ chat_data' = r.messages
    /\ ret' = [NoRet EXCEPT !.op = "get_top_users", !.top_n = top_n,
                            !.raised = r.raised, !.is_question = r.is_question,
                            !.users = r.users, !.counted = r.counted,
                            !.result = r.result]
    /\ UNCHANGED <<loaded, stop_words>>

GenerateWordCloud ==
    \E r \in {generate_word_cloud(chat_data, stop_words)} :
    /\ ret' = [NoRet EXCEPT !.op = "generate_word_cloud",
                            !.text_content = r.text_content,
                            !.normalized = r.normalized]
    /\ UNCHANGED <<loaded, chat_data, stop_words>>

MsgHasQuestion(i) ==
    \E r \in {msg_has_question(chat_data[i])} :
    /\ chat_data' = [chat_data EXCEPT ![i] = r.msg]
    /\ ret' = [NoRet EXCEPT !.op = "msg_has_question", !.index = i,
                            !.value = r.value]
    /\ UNCHANGED <<loaded, stop_words>>

Next ==
    \/ \E top_n \in 1..MaxTopN : GetTopUsers(top_n)
    \/ GenerateWordCloud
    \/ \E i \in 1..Len(chat_data) : MsgHasQuestion(i)

Spec == Init /\ [][Next]_vars

NextTop == \E top_n \in 1..MaxTopN : GetTopUsers(top_n)

SpecTop == InitTop /\ [][NextTop]_vars

\* The same chats with every reply naming the id of the second message.
InitOrder == InitWith(TopMaxMsgs, {0}, TopTexts, Senders, ReplyTo({1}), StopFile)

SpecOrder == InitOrder /\ [][NextTop]_vars

SpecText == InitText /\ [][Next]_vars

\* The two top-level operations alone.
NextCalls ==
    \/ \E top_n \in 1..MaxTopN : GetTopUsers(top_n)
    \/ GenerateWordCloud

SpecCalls == Init /\ [][NextCalls]_vars

(***************************************************************************)
(* Vocabulary of the properties.  They speak of the state after a call of  *)
(* get_top_users: ret.is_question is the map the first pass built,         *)
(* ret.users the votes, ret.counted the positions of the messages counted. *)
(***************************************************************************)
Flagged(id) == id \in DOMAIN ret.is_question /\ ret.is_question[id] = TRUE

Votes(s) == Cardinality({j \in 1..Len(ret.users) : ret.users[j] = s})

Voted == {s \in Senders : Votes(s) > 0}

CountedFrom(s) == {i \in Range(ret.counted) : loaded[i].from = s}

\* Position of the first counted reply of a voted sender.
FirstReply(s) == CHOOSE i \in CountedFrom(s) : \A k \in CountedFrom(s) : i <= k

\* s stands before t in the ranking.
RanksBefore(s, t) ==
    \/ Votes(s) > Votes(t)
    \/ Votes(s) = Votes(t) /\ FirstReply(s) < FirstReply(t)

RepliesToQuestion(s) ==
    {i \in 1..Len(loaded) :
        /\ loaded[i].from = s
        /\ loaded[i].has_reply
        /\ Flagged(loaded[i].reply_to_message_id)}

\* C1: the votes get_top_users tallies for a sender are exactly that sender's
\* messages that have a reply_to_message_id naming a message flagged as a
\* question: each such message is one vote, no other message is a vote.
C1_VotesAreRepliesToQuestions ==
    ret.op = "get_top_users" =>
        \A s \in Senders : Votes(s) = Cardinality(RepliesToQuestion(s))

\* C2: for positive N the result of get_top_users(N) is the first min(N, D)
\* entries of the voted senders ranked by descending vote count, equal counts
\* by the position of the first counted reply; it keeps that order, maps each
\* sender to its full count and is not padded.
C2_TopNIsRankedPrefix ==
    ret.op = "get_top_users" =>
        LET res == ret.result IN
        /\ Len(res) = Min(ret.top_n, Cardinality(Voted))
        /\ \A j \in 1..Len(res) :
              /\ res[j][1] \in Voted
              /\ res[j][2] = Votes(res[j][1])
              /\ Votes(res[j][1]) = Cardinality(CountedFrom(res[j][1]))
        /\ \A j, k \in 1..Len(res) : j < k => RanksBefore(res[j][1], res[k][1])
        /\ \A s \in Voted :
              (\A j \in 1..Len(res) : res[j][1] # s) =>
                  \A j \in 1..Len(res) : RanksBefore(res[j][1], s)

\* C2 witness: two senders with the same number of votes and N = 1, so the
\* ranking is cut inside a tie.
C2_Witness ==
    /\ ret.op = "get_top_users"
    /\ ret.top_n = 1
    /\ Cardinality(Voted) = 2
    /\ \A s, t \in Voted : Votes(s) = Votes(t)
    /\ Len(ret.result) = 1

\* C3: a message whose reply_to_message_id was never flagged (the id is not
\* in the export, or names a message that is no question) is not counted, the
\* lookup does not raise, and the result is the tally of the counted messages.
C3_UnflaggedReplySkipped ==
    ret.op = "get_top_users" =>
        /\ ~ret.raised
        /\ \A i \in 1..Len(loaded) :
              (loaded[i].has_reply /\ ~Flagged(loaded[i].reply_to_message_id))
                  => i \notin Range(ret.counted)
        /\ \A i \in Range(ret.counted) :
              loaded[i].has_reply /\ Flagged(loaded[i].reply_to_message_id)
        /\ Len(ret.result) = Min(ret.top_n, Cardinality(Voted))
        /\ \A j \in 1..Len(ret.result) :
              ret.result[j][2] = Cardinality(CountedFrom(ret.result[j][1]))

\* C3 witness: a reply to an id that no message of the export has, next to a
\* reply that is counted.
C3_Witness ==
    /\ ret.op = "get_top_users"
    /\ \E i \in 1..Len(loaded) :
          /\ loaded[i].has_reply
          /\ \A j \in 1..Len(loaded) : loaded[j].id # loaded[i].reply_to_message_id
    /\ ret.result # <<>>

(***************************************************************************)
(* Flattening and the word-cloud text, stated over whole lists.            *)
(***************************************************************************)
RECURSIVE ConcatAll(_)
ConcatAll(ss) == IF ss = <<>> THEN <<>> ELSE Head(ss) \o ConcatAll(Tail(ss))

\* What one segment adds to the flattened text.
Contribution(seg) ==
    IF seg.isstr THEN seg.val ELSE IF seg.has_text THEN seg.text ELSE <<>>

Flattened(segs) == ConcatAll([i \in 1..Len(segs) |-> Contribution(segs[i])])

FlatText(text) == IF text.isstr THEN text.val ELSE Flattened(text.segs)

HasMark(s) == Contains("?", s) \/ Contains(ArabicQM, s)

\* C4: after the first pass of get_top_users, is_question holds true for a
\* message's id exactly if one of the sentences of the flattened text holds
\* "?" or the Arabic question mark; a text without sentences is not flagged.
C4_FlaggedIffSentenceHasMark ==
    ret.op = "get_top_users" =>
        \A i \in 1..Len(loaded) :
            LET sentences == sent_tokenize(FlatText(loaded[i].text)) IN
            /\ Flagged(loaded[i].id)
                   <=> \E k \in 1..Len(sentences) : HasMark(sentences[k])
            /\ FlatText(loaded[i].text) = <<>> => sentences = <<>>
            /\ sentences = <<>> => ~Flagged(loaded[i].id)

\* C4 witness: a flagged message with a sentence that holds the Arabic
\* question mark and a sentence that holds no mark.
C4_Witness ==
    /\ ret.op = "get_top_users"
    /\ \E i \in 1..Len(loaded) :
          LET sentences == sent_tokenize(FlatText(loaded[i].text)) IN
          /\ Flagged(loaded[i].id)
          /\ \E k \in 1..Len(sentences) : Contains(ArabicQM, sentences[k])
          /\ \E k \in 1..Len(sentences) : ~HasMark(sentences[k])

ExampleSegments ==
    <<StrSeg(<<"a">>), DictSeg(<<"b">>), OtherSeg, StrSeg(<<"c">>)>>

\* C5: rebuild_msg returns the concatenation, in list order, of the str
\* segments and of the 'text' of the dict segments that carry one; the other
\* segments add nothing, and the empty list gives the empty string.
C5_RebuildConcatenates ==
    /\ rebuild_msg(ExampleSegments) = <<"a", "b", "c">>
    /\ rebuild_msg(<<>>) = <<>>
    /\ ret.op \in {"get_top_users", "msg_has_question"} =>
          \A i \in 1..Len(loaded) :
              ~loaded[i].text.isstr =>
                  /\ chat_data[i].text.isstr
                  /\ chat_data[i].text.val = Flattened(loaded[i].text.segs)
                  /\ chat_data[i].text.val = rebuild_msg(loaded[i].text.segs)

\* C5 witness: a flattened list of a str segment followed by a dict segment
\* with a different 'text'.
C5_Witness ==
    /\ ret.op = "get_top_users"
    /\ \E i \in 1..Len(loaded) :
          LET segs == loaded[i].text.segs IN
          /\ ~loaded[i].text.isstr
          /\ Len(segs) = 2
          /\ segs[1].isstr /\ segs[1].val # <<>>
          /\ segs[2].has_text /\ segs[2].text # <<>>
          /\ segs[1].val # segs[2].text
          /\ chat_data[i].text.isstr

\* C6: whichever of get_top_users and generate_word_cloud is called first,
\* get_top_users returns the same mapping and generate_word_cloud passes on
\* the same text: each equals what the call gives on the export as loaded.
C6_OrderOfCallsIrrelevant ==
    /\ ret.op = "get_top_users" =>
          ret.result = get_top_users(loaded, ret.top_n).result
    /\ ret.op = "generate_word_cloud" =>
          ret.normalized = generate_word_cloud(loaded, stop_words).normalized

\* C7: no token of an included message whose normalized form is a stopword
\* is in the accumulated text, wherever it stands in the message and also
\* when the token is itself not normalized.
C7_NormalizedStopwordsExcluded ==
    (ret.op = "generate_word_cloud" /\ Len(chat_data) = 1 /\ chat_data[1].text.isstr) =>
        LET tokens == word_tokenize(chat_data[1].text.val)
            kept == SplitSpaces(ret.text_content, 1, <<>>)
        IN  \A k \in 1..Len(tokens) :
                normalize(tokens[k]) \in stop_words => tokens[k] \notin Range(kept)

\* The export differs from the loaded one at most in texts that were flattened.
OnlyTextsFlattened ==
    /\ Len(chat_data) = Len(loaded)
    /\ \A i \in 1..Len(loaded) :
          /\ chat_data[i].id = loaded[i].id
          /\ chat_data[i].from = loaded[i].from
          /\ chat_data[i].has_reply = loaded[i].has_reply
          /\ chat_data[i].reply_to_message_id = loaded[i].reply_to_message_id
          /\ loaded[i].text.isstr => chat_data[i].text = loaded[i].text
          /\ ~loaded[i].text.isstr =>
                \/ chat_data[i].text = loaded[i].text
                \/ chat_data[i].text = StrText(Flattened(loaded[i].text.segs))
    /\ ret.op = "get_top_users" =>
          \A i \in 1..Len(chat_data) : chat_data[i].text.isstr

StrStaysStr ==
    /\ Len(chat_data') = Len(chat_data)
    /\ \A i \in 1..Len(chat_data) :
          chat_data[i].text.isstr => chat_data'[i].text.isstr

\* C8: after any calls of get_top_users and generate_word_cloud the export in
\* memory differs from the loaded one only in texts replaced by their
\* flattened string; after get_top_users every text is a str, and a text that
\* is a str stays one.
C8_OnlyFlatteningMutates == [](OnlyTextsFlattened) /\ [][StrStaysStr]_vars

\* C8 witness: generate_word_cloud has run on an export in which an earlier
\* get_top_users flattened a segmented text.
C8_Witness ==
    /\ ret.op = "generate_word_cloud"
    /\ \E i \in 1..Len(loaded) : ~loaded[i].text.isstr /\ chat_data[i].text.isstr
    /\ \E i \in 1..Len(loaded) : loaded[i].has_reply

\* ' '.join(tokens), token by token.
SpaceJoined(tokens) ==
    ConcatAll([k \in 1..Len(tokens) |->
                  IF k = 1 THEN tokens[k] ELSE <<" ">> \o tokens[k]])

\* The surviving tokens of one message, space-joined; nothing for a text that
\* is no str.
TokenGroup(msg) ==
    IF msg.text.isstr
    THEN SpaceJoined(SelectSeq(word_tokenize(msg.text.val),
                               LAMBDA t : t \notin stop_words))
    ELSE <<>>

GroupsBackToBack ==
    ret.op = "generate_word_cloud" =>
        ret.text_content =
            ConcatAll([i \in 1..Len(chat_data) |-> TokenGroup(chat_data[i])])

CloudLeavesExport == ret'.op = "generate_word_cloud" => chat_data' = chat_data

\* C9: the text generate_word_cloud accumulates is the concatenation, in
\* message order, of the space-joined non-stopword tokens of every message
\* whose text is a str, nothing between the groups; a message whose text is a
\* segment list adds nothing and is not flattened.
C9_CloudTextIsGroupsBackToBack == [](GroupsBackToBack) /\ [][CloudLeavesExport]_vars

\* C9 witness: two consecutive messages with surviving tokens, a stopword
\* dropped from one of them.
C9_Witness ==
    /\ ret.op = "generate_word_cloud"
    /\ \E i \in 1..(Len(chat_data) - 1) :
          /\ TokenGroup(chat_data[i]) # <<>>
          /\ TokenGroup(chat_data[i + 1]) # <<>>
          /\ \E t \in Range(word_tokenize(chat_data[i].text.val)) : t \in stop_words

(***************************************************************************)
(* Reordering the export.                                                  *)
(***************************************************************************)
\* The orderings of n messages, for every length of an export.
Orderings ==
    [n \in 0..TopMaxMsgs |->
        {p \in [1..n -> 1..n] : \A a, b \in 1..n : a # b => p[a] # p[b]}]

Permuted(messages, p) == [i \in 1..Len(messages) |-> messages[p[i]]]

CountsOf(result) == [j \in 1..Len(result) |-> result[j][2]]

\* C10 as stated: reordering the messages changes at most the order of the
\* entries of the result.
C10_SameEntriesInAnyOrder ==
    ret.op = "get_top_users" =>
        \A p \in Orderings[Len(loaded)] :
            \A q \in {get_top_users(Permuted(loaded, p), ret.top_n)} :
                Range(q.result) = Range(ret.result)

\* C10, amended: the vote count of every sender is the same for every order
\* of the messages, a reply standing before its question included; the
\* result has the same counts at the same places, and each of its entries is
\* a sender with its vote count.
C10_TallyIndependentOfOrder ==
    ret.op = "get_top_users" =>
        \A p \in Orderings[Len(loaded)] :
            \A q \in {get_top_users(Permuted(loaded, p), ret.top_n)} :
                /\ Range(Counter(q.users)) = Range(Counter(ret.users))
                /\ CountsOf(q.result) = CountsOf(ret.result)
                /\ Range(q.result) \subseteq Range(Counter(ret.users))

\* C10 witness: a counted reply that stands before the question it answers.
C10_Witness ==
    /\ ret.op = "get_top_users"
    /\ \E i \in Range(ret.counted) :
          \E j \in (i + 1)..Len(loaded) :
              loaded[j].id = loaded[i].reply_to_message_id

====
